---- MODULE Spec2Model ----
(***************************************************************************)
(* Multi-tenant SaaS on AWS: tenant isolation, tenant resource limits and  *)
(* the order status lifecycle.                                             *)
(*                                                                         *)
(* Two families of handlers are modelled, each with its own store:         *)
(*   - the DynamoDB handlers (order_handler.py, product_handler.py), whose *)
(*     requests are interleaved at the granularity of one table call;      *)
(*   - the SQL services (order_service.py, user_management.py), whose      *)
(*     requests are one statement each.                                    *)
(***************************************************************************)
EXTENDS Integers, FiniteSets, Sequences, TLC

(***************************************************************************)
(* Bounds of the model.                                                    *)
(***************************************************************************)
\* number of request slots: requests of the DynamoDB handlers in flight at once
NReq == 2
\* number of order ids / product ids that uuid4 can hand out in one run
MaxIds == 2
\* how far below its limit a tenant's preloaded item count may start
Slack == 1

Req == 1..NReq
Ids == 1..MaxIds

\* tenant ids are strings; the model keeps them as sequences of characters
TenantA == <<"t", "-", "a">>
TenantB == <<"t", "-", "b">>
TenantIds == {TenantA, TenantB}
NoTenant == <<>>
NoStatus == "none"

(***************************************************************************)
(* tenant_handler.py: the subscription tiers and their limits.             *)
(***************************************************************************)
SubscriptionTiers == {"basic", "premium", "enterprise"}

\* get_tier_limits with the enterprise entry missing: the tier falls back to
\* the basic limits
get_tier_limits_no_enterprise(tier) ==
    CASE tier = "premium" ->
            [max_products |-> 1000, max_orders |-> 10000, max_users |-> 50]
      [] OTHER ->
            [max_products |-> 100, max_orders |-> 1000, max_users |-> 10]

get_tier_limits(tier) ==
    CASE tier = "premium" ->
            [max_products |-> 1000, max_orders |-> 10000, max_users |-> 50]
      [] tier = "enterprise" ->
            [max_products |-> -1, max_orders |-> -1, max_users |-> -1]
      [] OTHER ->
            [max_products |-> 100, max_orders |-> 1000, max_users |-> 10]

\* the tenant record register_tenant stores
tenant_record(tier) ==
    [tier |-> tier, status |-> "active", limits |-> get_tier_limits(tier)]

(***************************************************************************)
(* State of the DynamoDB handlers.                                         *)
(*   isolation_model  the ISOLATION_MODEL environment variable             *)
(*   tenants          the tenant table: tenant_id -> tenant record         *)
(*   preload          per tenant and kind, how many items the tenant's     *)
(*                    partition/table held before the first request        *)
(*   items            the items written by the modelled requests           *)
(*   req              per request slot: position in its handler, inputs,   *)
(*                    locals, the response and the SNS message it sent     *)
(***************************************************************************)
VARIABLES isolation_model, tenants, preload, items, req

(***************************************************************************)
(* State of the SQL services.                                              *)
(*   tier_of    the tier claim (custom:tenant_tier) of each tenant's users *)
(*   db         the rows of the PostgreSQL server                          *)
(*   sql_resp   the response of the last request                           *)
(* and, for the functions checked on their own,                            *)
(*   pure       the arguments and the result of the last call; in          *)
(*              SpecConn, the connection handle and cursor of one request  *)
(***************************************************************************)
VARIABLES tier_of, db, sql_resp, pure

ddb_vars == <<isolation_model, tenants, preload, items, req>>
sql_vars == <<tier_of, db, sql_resp>>
vars == <<ddb_vars, sql_vars, pure>>

IsolationModels == {"pool", "silo"}

\* tenant_utils.get_table_name: the shared table under pool, the table
\* <base>-<tenant_id> (tenant_handler.create_tenant_tables) under silo
get_table_name(base, tenant_id, model) ==
    IF model = "pool" THEN <<base>> ELSE <<base, "-", tenant_id>>

\* order statuses
valid_statuses == {"pending", "confirmed", "shipped", "delivered", "cancelled"}

\* what a request body may carry as status: the five literals, an
\* unrecognized literal, and nothing
StatusInputs == valid_statuses \cup {"processing", ""}

\* order_handler.is_valid_status_transition
valid_transitions(current) ==
    CASE current = "pending"   -> {"confirmed", "cancelled"}
      [] current = "confirmed" -> {"shipped", "cancelled"}
      [] current = "shipped"   -> {"delivered", "cancelled"}
      [] current = "delivered" -> {}
      [] current = "cancelled" -> {}
      [] OTHER                 -> {}

\* the transition check as the docstring of update_order words it:
\* "Any status -> cancelled"
any_status_to_cancelled(current, new) ==
    new = "cancelled" \/ new \in valid_transitions(current)

is_valid_status_transition(current, new) == new \in valid_transitions(current)

\* f'ORDER_{new_status.upper()}'
order_event_type(new_status) ==
    CASE new_status = "pending"   -> "ORDER_PENDING"
      [] new_status = "confirmed" -> "ORDER_CONFIRMED"
      [] new_status = "shipped"   -> "ORDER_SHIPPED"
      [] new_status = "delivered" -> "ORDER_DELIVERED"
      [] new_status = "cancelled" -> "ORDER_CANCELLED"
      [] OTHER                    -> "ORDER_OTHER"

(***************************************************************************)
(* tenant_utils.check_tenant_limits (LimitEnforcer).                       *)
(***************************************************************************)
limit_key(kind) == IF kind = "orders" THEN "max_orders" ELSE "max_products"

\* the comparison off by one: a tenant at its limit is still admitted
allow_create_inclusive(limit, current_count) ==
    IF limit = -1 THEN TRUE ELSE current_count <= limit

\* -1 is unlimited; otherwise allow iff current_count < limit
allow_create(limit, current_count) ==
    IF limit = -1 THEN TRUE ELSE current_count < limit

\* "allow" / "deny", or the error it raises
check_tenant_limits(tenant_id, kind, current_count) ==
    IF tenant_id \notin DOMAIN tenants THEN "TenantNotFound"
    ELSE IF tenants[tenant_id].status # "active" THEN "TenantInactive"
    ELSE IF allow_create(tenants[tenant_id].limits[limit_key(kind)], current_count)
         THEN "allow" ELSE "deny"

(***************************************************************************)
(* The DynamoDB tables.  An item carries the table it is in, its key and,  *)
(* as history, owner: the tenant context under which it was created.       *)
(***************************************************************************)
\* the items a request under tenant_id addresses: query on the partition key
\* under pool, scan of the tenant's table otherwise
tenant_items(kind, tenant_id) ==
    {i \in items : /\ i.kind = kind
                   /\ i.table = get_table_name(kind, tenant_id, isolation_model)
                   /\ isolation_model = "pool" => i.tenant_id = tenant_id}

\* table.query(... Select='COUNT') / table.scan(Select='COUNT')
count_items(kind, tenant_id) ==
    preload[tenant_id][kind] + Cardinality(tenant_items(kind, tenant_id))

\* table.get_item(Key=...): the set of items with that key (empty or one)
get_item(kind, tenant_id, id) ==
    {i \in tenant_items(kind, tenant_id) : i.id = id}

\* str(uuid.uuid4()): an id no item of that kind carries
fresh_ids(kind) == {n \in Ids : \A i \in items : i.kind = kind => i.id # n}

fresh_id(kind) == CHOOSE n \in fresh_ids(kind) : \A m \in fresh_ids(kind) : n <= m

new_item(kind, tenant_id, id) ==
    [kind |-> kind,
     table |-> get_table_name(kind, tenant_id, isolation_model),
     tenant_id |-> IF isolation_model = "pool" THEN tenant_id ELSE NoTenant,
     id |-> id,
     status |-> IF kind = "orders" THEN "pending" ELSE NoStatus,
     owner |-> tenant_id]

\* table.put_item(Item=item)
put_item(item) == items \cup {item}

\* order_handler.publish_order_event: the messages the call leaves on the
\* topic; a failing publish is caught and printed
publish_order_event(tenant_id, order_id, event_type, delivered) ==
    IF delivered
    THEN {[tenant_id |-> tenant_id, order_id |-> order_id,
           event_type |-> event_type]}
    ELSE {}

(***************************************************************************)
(* Request slots.                                                          *)
(***************************************************************************)
IdleReq ==
    [pc |-> "idle", op |-> "none", tenant_id |-> NoTenant, id |-> 0,
     new_status |-> NoStatus, current_status |-> NoStatus,
     current_count |-> -1, status_code |-> 0, item_owner |-> NoTenant,
     published |-> {}]

\* a slot is free before its first request and after a response
free(r) == req[r].pc \in {"idle", "done"}

\* create_response(status_code, ...)
create_response(op, status_code) ==
    [IdleReq EXCEPT !.pc = "done", !.op = op, !.status_code = status_code]

(***************************************************************************)
(* order_handler.create_order: count, limit check, then put_item and the   *)
(* ORDER_CREATED event.  The count and the put are two table calls; other  *)
(* requests run between them.                                              *)
(***************************************************************************)
\* create_order without the 403 branch: the verdict is computed and ignored
create_order_check_unenforced(r, tenant_id, body_ok) ==
    /\ free(r)
    /\ LET current_count == count_items("orders", tenant_id)
           verdict == check_tenant_limits(tenant_id, "orders", current_count)
       IN req' = [req EXCEPT ![r] =
            IF ~body_ok THEN create_response("create_order", 400)
            ELSE IF verdict \in {"allow", "deny"}
                 THEN [IdleReq EXCEPT !.pc = "put", !.op = "create_order",
                                      !.tenant_id = tenant_id]
            ELSE create_response("create_order", 500)]
    /\ UNCHANGED <<isolation_model, tenants, preload, items>>
    /\ UNCHANGED <<sql_vars, pure>>

create_order_check(r, tenant_id, body_ok) ==
    /\ free(r)
    /\ LET current_count == count_items("orders", tenant_id)
           verdict == check_tenant_limits(tenant_id, "orders", current_count)
       IN req' = [req EXCEPT ![r] =
            IF ~body_ok THEN create_response("create_order", 400)
            ELSE IF verdict = "allow"
                 THEN [IdleReq EXCEPT !.pc = "put", !.op = "create_order",
                                      !.tenant_id = tenant_id]
            ELSE IF verdict = "deny"
                 THEN [create_response("create_order", 403)
                          EXCEPT !.current_count = current_count]
            ELSE create_response("create_order", 500)]
    /\ UNCHANGED <<isolation_model, tenants, preload, items>>
    /\ UNCHANGED <<sql_vars, pure>>

\* create_order with a put that is conditional on the count still being
\* below the limit
create_order_put_if_room(r, delivered) ==
    /\ req[r].pc = "put"
    /\ req[r].op = "create_order"
    /\ fresh_ids("orders") # {}
    /\ LET order_id == fresh_id("orders")
           tenant_id == req[r].tenant_id
           current_count == count_items("orders", tenant_id)
       IN IF check_tenant_limits(tenant_id, "orders", current_count) = "allow"
          THEN /\ items' = put_item(new_item("orders", tenant_id, order_id))
               /\ req' = [req EXCEPT ![r] =
                     [create_response("create_order", 201)
                         EXCEPT !.id = order_id,
                                !.published = publish_order_event(
                                    tenant_id, order_id, "ORDER_CREATED",
                                    delivered)]]
          ELSE /\ items' = items
               /\ req' = [req EXCEPT ![r] =
                     [create_response("create_order", 403)
                         EXCEPT !.current_count = current_count]]
    /\ UNCHANGED <<isolation_model, tenants, preload>>
    /\ UNCHANGED <<sql_vars, pure>>

create_order_put(r, delivered) ==
    /\ req[r].pc = "put"
    /\ req[r].op = "create_order"
    /\ fresh_ids("orders") # {}
    /\ LET order_id == fresh_id("orders")
           tenant_id == req[r].tenant_id
       IN /\ items' = put_item(new_item("orders", tenant_id, order_id))
          /\ req' = [req EXCEPT ![r] =
                [create_response("create_order", 201)
                    EXCEPT !.id = order_id,
                           !.published = publish_order_event(
                               tenant_id, order_id, "ORDER_CREATED", delivered)]]
    /\ UNCHANGED <<isolation_model, tenants, preload>>
    /\ UNCHANGED <<sql_vars, pure>>

(***************************************************************************)
(* product_handler.create_product: the same shape, without an event.       *)
(***************************************************************************)
\* create_product with the put ahead of the limit check
create_product_check_put_first(r, tenant_id, body_ok) ==
    /\ free(r)
    /\ LET current_count == count_items("products", tenant_id)
           verdict == check_tenant_limits(tenant_id, "products", current_count)
       IN /\ req' = [req EXCEPT ![r] =
                IF ~body_ok THEN create_response("create_product", 400)
                ELSE IF verdict = "allow"
                     THEN [IdleReq EXCEPT !.pc = "put", !.op = "create_product",
                                          !.tenant_id = tenant_id]
                ELSE IF verdict = "deny"
                     THEN [create_response("create_product", 403)
                              EXCEPT !.current_count = current_count]
                ELSE create_response("create_product", 500)]
          /\ items' = IF body_ok /\ verdict = "deny" /\ fresh_ids("products") # {}
                      THEN put_item(new_item("products", tenant_id,
                                             fresh_id("products")))
                      ELSE items
    /\ UNCHANGED <<isolation_model, tenants, preload>>
    /\ UNCHANGED <<sql_vars, pure>>

create_product_check(r, tenant_id, body_ok) ==
    /\ free(r)
    /\ LET current_count == count_items("products", tenant_id)
           verdict == check_tenant_limits(tenant_id, "products", current_count)
       IN req' = [req EXCEPT ![r] =
            IF ~body_ok THEN create_response("create_product", 400)
            ELSE IF verdict = "allow"
                 THEN [IdleReq EXCEPT !.pc = "put", !.op = "create_product",
                                      !.tenant_id = tenant_id]
            ELSE IF verdict = "deny"
                 THEN [create_response("create_product", 403)
                          EXCEPT !.current_count = current_count]
            ELSE create_response("create_product", 500)]
    /\ UNCHANGED <<isolation_model, tenants, preload, items>>
    /\ UNCHANGED <<sql_vars, pure>>

create_product_put(r) ==
    /\ req[r].pc = "put"
    /\ req[r].op = "create_product"
    /\ fresh_ids("products") # {}
    /\ LET product_id == fresh_id("products")
           tenant_id == req[r].tenant_id
       IN /\ items' = put_item(new_item("products", tenant_id, product_id))
          /\ req' = [req EXCEPT ![r] =
                [create_response("create_product", 201) EXCEPT !.id = product_id]]
    /\ UNCHANGED <<isolation_model, tenants, preload>>
    /\ UNCHANGED <<sql_vars, pure>>

(***************************************************************************)
(* order_handler.update_order: get_item, transition check, then an         *)
(* unconditional update_item and the status event.                         *)
(***************************************************************************)
update_order_get(r, tenant_id, order_id, new_status) ==
    /\ free(r)
    /\ LET found == get_item("orders", tenant_id, order_id)
           current_status == (CHOOSE i \in found : TRUE).status
       IN req' = [req EXCEPT ![r] =
            IF new_status = "" THEN create_response("update_order", 400)
            ELSE IF new_status \notin valid_statuses
                 THEN create_response("update_order", 400)
            ELSE IF found = {} THEN create_response("update_order", 404)
            ELSE IF ~is_valid_status_transition(current_status, new_status)
                 THEN create_response("update_order", 400)
            ELSE [IdleReq EXCEPT !.pc = "update", !.op = "update_order",
                                 !.tenant_id = tenant_id, !.id = order_id,
                                 !.new_status = new_status,
                                 !.current_status = current_status]]
    /\ UNCHANGED <<isolation_model, tenants, preload, items>>
    /\ UNCHANGED <<sql_vars, pure>>

\* table.update_item(Key=key, SET status, updated_at): no condition on the
\* stored status (orders are never deleted, so the key exists)
update_item(tenant_id, order_id, new_status) ==
    {IF i \in get_item("orders", tenant_id, order_id)
     THEN [i EXCEPT !.status = new_status] ELSE i : i \in items}

\* update_order with publish_order_event letting the failure of the topic
\* through: update_order's own except answers 500
update_order_update_publish_uncaught(r, delivered) ==
    /\ req[r].pc = "update"
    /\ req[r].op = "update_order"
    /\ LET tenant_id == req[r].tenant_id
           order_id == req[r].id
           new_status == req[r].new_status
       IN /\ items' = update_item(tenant_id, order_id, new_status)
          /\ req' = [req EXCEPT ![r] =
                [create_response("update_order", IF delivered THEN 200 ELSE 500)
                    EXCEPT !.tenant_id = tenant_id, !.id = order_id,
                           !.new_status = new_status,
                           !.current_status = req[r].current_status,
                           !.published = publish_order_event(
                               tenant_id, order_id,
                               order_event_type(new_status), delivered)]]
    /\ UNCHANGED <<isolation_model, tenants, preload>>
    /\ UNCHANGED <<sql_vars, pure>>

update_order_update(r, delivered) ==
    /\ req[r].pc = "update"
    /\ req[r].op = "update_order"
    /\ LET tenant_id == req[r].tenant_id
           order_id == req[r].id
           new_status == req[r].new_status
       IN /\ items' = update_item(tenant_id, order_id, new_status)
          /\ req' = [req EXCEPT ![r] =
                [create_response("update_order", 200)
                    EXCEPT !.tenant_id = tenant_id, !.id = order_id,
                           !.new_status = new_status,
                           !.current_status = req[r].current_status,
                           !.published = publish_order_event(
                               tenant_id, order_id,
                               order_event_type(new_status), delivered)]]
    /\ UNCHANGED <<isolation_model, tenants, preload>>
    /\ UNCHANGED <<sql_vars, pure>>

(***************************************************************************)
(* order_handler.get_order.                                                *)
(***************************************************************************)
get_order(r, tenant_id, order_id) ==
    /\ free(r)
    /\ LET found == get_item("orders", tenant_id, order_id)
           order == CHOOSE i \in found : TRUE
       IN req' = [req EXCEPT ![r] =
            IF found = {} THEN create_response("get_order", 404)
            \* enforce_tenant_isolation raises on a foreign tenant_id
            ELSE IF isolation_model = "pool" /\ order.tenant_id # tenant_id
                 THEN create_response("get_order", 500)
            ELSE [create_response("get_order", 200)
                    EXCEPT !.tenant_id = tenant_id, !.item_owner = order.owner]]
    /\ UNCHANGED <<isolation_model, tenants, preload, items>>
    /\ UNCHANGED <<sql_vars, pure>>

(***************************************************************************)
(* The SQL services (order_service.py, user_management.py).  Each request  *)
(* opens a connection, runs its statements in one transaction and closes.  *)
(***************************************************************************)
Tiers == {"pool", "bridge", "silo"}

PublicSchema == <<"public">>

\* str.replace('-', '_')
RECURSIVE replace_dash(_)
replace_dash(s) ==
    IF s = <<>> THEN <<>>
    ELSE <<IF Head(s) = "-" THEN "_" ELSE Head(s)>> \o replace_dash(Tail(s))

\* get_database_connection_params with the bridge schema built from the raw
\* tenant id
get_database_connection_params_raw_schema(tenant_id, tier) ==
    CASE tier = "pool" ->
            [raised |-> "none",
             database |-> <<"POOL_DATABASE">>, schema |-> PublicSchema,
             row_security_context |-> tenant_id]
      [] tier = "bridge" ->
            [raised |-> "none",
             database |-> <<"BRIDGE_DATABASE">>,
             schema |-> <<"tenant_">> \o tenant_id,
             row_security_context |-> NoTenant]
      [] tier = "silo" ->
            [raised |-> "none",
             database |-> <<"tenant_">> \o tenant_id, schema |-> PublicSchema,
             row_security_context |-> NoTenant]
      [] OTHER ->
            [raised |-> "ValueError",
             database |-> <<>>, schema |-> <<>>,
             row_security_context |-> NoTenant]

\* tenant-context.get_database_connection_params; any other tier raises
\* ValueError("Unknown tenant tier")
get_database_connection_params(tenant_id, tier) ==
    CASE tier = "pool" ->
            [raised |-> "none",
             database |-> <<"POOL_DATABASE">>, schema |-> PublicSchema,
             row_security_context |-> tenant_id]
      [] tier = "bridge" ->
            [raised |-> "none",
             database |-> <<"BRIDGE_DATABASE">>,
             schema |-> <<"tenant_">> \o replace_dash(tenant_id),
             row_security_context |-> NoTenant]
      [] tier = "silo" ->
            [raised |-> "none",
             database |-> <<"tenant_">> \o tenant_id, schema |-> PublicSchema,
             row_security_context |-> NoTenant]
      [] OTHER ->
            [raised |-> "ValueError",
             database |-> <<>>, schema |-> <<>>,
             row_security_context |-> NoTenant]

\* get_database_connection: psycopg2.connect(database=creds['dbname']) for
\* every tier, then SET search_path (bridge, silo) or SET app.current_tenant
\* (pool); the database of db_params is not used
get_database_connection(tenant_id, tier) ==
    [database |-> <<"dbname">>,
     search_path |-> IF tier \in {"bridge", "silo"}
                     THEN get_database_connection_params(tenant_id, tier).schema
                     ELSE PublicSchema,
     current_tenant |-> IF tier = "pool" THEN tenant_id ELSE NoTenant]

\* the rows of a relation that an unqualified table name resolves to
table_rows(conn, relation) ==
    {row \in db : /\ row.relation = relation
                  /\ row.database = conn.database
                  /\ row.schema = conn.search_path}

\* select_rows with the tenant_id condition left out
select_rows_unfiltered(relation, tenant_id, tier) ==
    table_rows(get_database_connection(tenant_id, tier), relation)

\* ... WHERE <key> [AND tenant_id = %s]: the tenant_id condition is added
\* only for the pool tier
select_rows(relation, tenant_id, tier) ==
    {row \in table_rows(get_database_connection(tenant_id, tier), relation) :
        tier = "pool" => row.tenant_id = tenant_id}

\* uuid4: an id no row of the relation carries
sql_fresh_ids(relation) ==
    {n \in Ids : \A row \in db : row.relation = relation => row.id # n}

sql_fresh_id(relation) ==
    CHOOSE n \in sql_fresh_ids(relation) : \A m \in sql_fresh_ids(relation) : n <= m

\* INSERT INTO <relation> (...): with the tenant_id column for the pool tier,
\* without it otherwise.  owner records, as history, the inserting context.
new_row(relation, tenant_id, tier, id, user_id) ==
    LET conn == get_database_connection(tenant_id, tier)
    IN [relation |-> relation, database |-> conn.database,
        schema |-> conn.search_path,
        tenant_id |-> IF tier = "pool" THEN tenant_id ELSE NoTenant,
        id |-> id, user_id |-> user_id,
        status |-> IF relation = "orders" THEN "pending" ELSE "active",
        owner |-> tenant_id]

\* a response: the status code and, as history, the tenants under whose
\* context the rows it returns and the rows its request wrote were created,
\* and the tenant_id column of the orders and order_items rows that the
\* request's statements selected, updated or inserted
NoResponse ==
    [op |-> "none", tenant_id |-> NoTenant, status_code |-> 0,
     returned |-> {}, modified |-> {}, touched |-> {}]

owners(rows) == {row.owner : row \in rows}

tenant_id_column(rows) == {row.tenant_id : row \in rows}

sql_response(op, tenant_id, status_code) ==
    [NoResponse EXCEPT !.op = op, !.tenant_id = tenant_id,
                       !.status_code = status_code]

\* the INSERT of a tier other than pool names no tenant_id; whether a shared
\* table takes such a row depends on its definition, which is not part of
\* the services: null_ok chooses
insert_accepted(conn, tier, null_ok) ==
    tier = "pool" \/ conn.search_path # PublicSchema \/ null_ok

\* user_management.create_user
sql_create_user(tenant_id, body_ok, null_ok) ==
    /\ sql_fresh_ids("users") # {}
    /\ LET tier == tier_of[tenant_id]
           conn == get_database_connection(tenant_id, tier)
           row == new_row("users", tenant_id, tier, sql_fresh_id("users"), 0)
       IN IF ~body_ok
          THEN /\ sql_resp' = sql_response("create_user", tenant_id, 400)
               /\ db' = db
          ELSE IF ~insert_accepted(conn, tier, null_ok)
          THEN /\ sql_resp' = sql_response("create_user", tenant_id, 500)
               /\ db' = db
          ELSE /\ db' = db \cup {row}
               /\ sql_resp' = [sql_response("create_user", tenant_id, 201)
                                 EXCEPT !.modified = owners({row})]
    /\ UNCHANGED <<ddb_vars, tier_of, pure>>

\* user_management.get_user
sql_get_user(tenant_id, user_id) ==
    /\ LET found == {row \in select_rows("users", tenant_id, tier_of[tenant_id]) :
                        row.id = user_id}
       IN sql_resp' =
            IF found = {} THEN sql_response("get_user", tenant_id, 404)
            ELSE [sql_response("get_user", tenant_id, 200)
                    EXCEPT !.returned = owners(found)]
    /\ UNCHANGED <<ddb_vars, tier_of, db, pure>>

\* order_service.create_order: the order row references users(user_id)
sql_create_order(tenant_id, user_id, body_ok, null_ok) ==
    /\ sql_fresh_ids("orders") # {}
    /\ LET tier == tier_of[tenant_id]
           conn == get_database_connection(tenant_id, tier)
           row == new_row("orders", tenant_id, tier, sql_fresh_id("orders"),
                          user_id)
           \* INSERT INTO order_items (...): the order's item, keyed in the
           \* model by the id of its order
           item == new_row("order_items", tenant_id, tier, row.id, 0)
           referenced == {u \in table_rows(conn, "users") : u.id = user_id}
       IN IF ~body_ok
          THEN /\ sql_resp' = sql_response("create_order", tenant_id, 400)
               /\ db' = db
          ELSE IF ~insert_accepted(conn, tier, null_ok) \/ referenced = {}
          THEN /\ sql_resp' = sql_response("create_order", tenant_id, 500)
               /\ db' = db
          ELSE /\ db' = db \cup {row, item}
               /\ sql_resp' = [sql_response("create_order", tenant_id, 201)
                                 EXCEPT !.modified = owners({row}),
                                        !.touched =
                                            tenant_id_column({row, item})]
    /\ UNCHANGED <<ddb_vars, tier_of, pure>>

\* FROM orders o JOIN users u ON o.user_id = u.user_id: the selected orders
\* and the user rows joined to them
joined_rows(selected, tenant_id, tier) ==
    LET conn == get_database_connection(tenant_id, tier)
        joined == {o \in selected :
                      \E u \in table_rows(conn, "users") : u.id = o.user_id}
    IN joined \cup {u \in table_rows(conn, "users") :
                       \E o \in joined : u.id = o.user_id}

\* order_service.get_order
sql_get_order(tenant_id, order_id) ==
    /\ LET tier == tier_of[tenant_id]
           selected == {o \in select_rows("orders", tenant_id, tier) :
                           o.id = order_id}
           found == joined_rows(selected, tenant_id, tier)
           \* FROM order_items oi ... WHERE oi.order_id = %s
           order_items == {oi \in select_rows("order_items", tenant_id, tier) :
                              oi.id = order_id}
       IN sql_resp' =
            IF found = {} THEN sql_response("get_order", tenant_id, 404)
            ELSE [sql_response("get_order", tenant_id, 200)
                    EXCEPT !.returned = owners(found \cup order_items),
                           !.touched = tenant_id_column(
                               (found \cap selected) \cup order_items)]
    /\ UNCHANGED <<ddb_vars, tier_of, db, pure>>

\* order_service.list_orders
sql_list_orders(tenant_id) ==
    /\ LET tier == tier_of[tenant_id]
           selected == select_rows("orders", tenant_id, tier)
           found == joined_rows(selected, tenant_id, tier)
       IN sql_resp' = [sql_response("list_orders", tenant_id, 200)
                         EXCEPT !.returned = owners(found),
                                !.touched =
                                    tenant_id_column(found \cap selected)]
    /\ UNCHANGED <<ddb_vars, tier_of, db, pure>>

\* order_service.update_order_status
sql_valid_statuses ==
    {"pending", "processing", "shipped", "delivered", "cancelled"}

\* what the body may carry as status; "" is a body without the field
SqlStatusInputs == sql_valid_statuses \cup {"confirmed", ""}

sql_update_order_status(tenant_id, order_id, new_status) ==
    /\ LET tier == tier_of[tenant_id]
           matched == {o \in select_rows("orders", tenant_id, tier) :
                          o.id = order_id}
       IN IF new_status = "" \/ new_status \notin sql_valid_statuses
          THEN /\ sql_resp' = sql_response("update_order_status", tenant_id, 400)
               /\ db' = db
          ELSE IF matched = {}
          THEN /\ sql_resp' = sql_response("update_order_status", tenant_id, 404)
               /\ db' = db
          ELSE /\ db' = (db \ matched)
                        \cup {[o EXCEPT !.status = new_status] : o \in matched}
               /\ sql_resp' = [sql_response("update_order_status", tenant_id, 200)
                                 EXCEPT !.modified = owners(matched),
                                        !.returned = owners(matched),
                                        !.touched = tenant_id_column(matched)]
    /\ UNCHANGED <<ddb_vars, tier_of, pure>>

(***************************************************************************)
(* The limit decision on its own: one call of allow_create on given        *)
(* arguments, or on the limit a tier's tenant record carries.              *)
(***************************************************************************)
\* the limits and counts the calls are made with
MaxLimit == 6
MaxCount == 6

Limits == (-MaxLimit)..MaxLimit
Counts == 0..MaxCount

LimitKeys == {"max_products", "max_orders", "max_users"}

NoCall ==
    [tier |-> "none", key |-> "none", limit |-> 0, current_count |-> 0,
     called |-> FALSE, out |-> FALSE]

PureIdle == pure = NoCall

call_allow_create ==
    /\ ~pure.called
    /\ pure' = [pure EXCEPT !.called = TRUE,
                            !.out = allow_create(pure.limit, pure.current_count)]
    /\ UNCHANGED <<ddb_vars, sql_vars>>

\* the decision for a tenant registered with the given tier
call_tier_limit(tier, key) ==
    /\ ~pure.called
    /\ LET limit == get_tier_limits(tier)[key]
       IN pure' = [pure EXCEPT !.tier = tier, !.key = key, !.limit = limit,
                               !.called = TRUE,
                               !.out = allow_create(limit, pure.current_count)]
    /\ UNCHANGED <<ddb_vars, sql_vars>>

(***************************************************************************)
(* Spec: the order handler (create, status update, get) under both         *)
(* isolation models.                                                       *)
(***************************************************************************)
\* a tenant's partition starts slack items below its limit (empty when the
\* limit is -1)
preloaded(limit, slack) == IF limit < 0 THEN 0 ELSE limit - slack

Preloads(slacks) ==
    {[t \in TenantIds |->
        [orders |-> preloaded(tenants[t].limits.max_orders, so),
         products |-> preloaded(tenants[t].limits.max_products, sp)]] :
     so \in slacks, sp \in slacks}

InitTenants(slacks) ==
    /\ tenants = [t \in TenantIds |->
                    IF t = TenantA THEN tenant_record("basic")
                                   ELSE tenant_record("enterprise")]
    /\ preload \in Preloads(slacks)

DdbInit ==
    /\ isolation_model \in IsolationModels
    /\ InitTenants({Slack})
    /\ items = {}
    /\ req = [r \in Req |-> IdleReq]

\* no SQL request yet
SqlIdle ==
    /\ tier_of = [t \in TenantIds |-> "pool"]
    /\ db = {}
    /\ sql_resp = NoResponse

Init == DdbInit /\ SqlIdle /\ PureIdle

\* the requests the slots R may issue and the steps they may take
OrderNext(R) ==
    \/ \E r \in R, t \in TenantIds, body_ok \in BOOLEAN :
            create_order_check(r, t, body_ok)
    \/ \E r \in R, delivered \in BOOLEAN : create_order_put(r, delivered)
    \/ \E r \in R, t \in TenantIds, id \in Ids, s \in StatusInputs :
            update_order_get(r, t, id, s)
    \/ \E r \in R, delivered \in BOOLEAN : update_order_update(r, delivered)
    \/ \E r \in R, t \in TenantIds, id \in Ids : get_order(r, t, id)

Next == OrderNext(Req)

Spec == Init /\ [][Next]_vars

\* SpecAlone: the same handlers with one request at a time
NextAlone == OrderNext({1})

SpecAlone == Init /\ [][NextAlone]_vars

(***************************************************************************)
(* SpecLimits: the creation handlers of both kinds and their limit check.  *)
(***************************************************************************)
NextLimits ==
    \/ \E r \in Req, t \in TenantIds, body_ok \in BOOLEAN :
            create_order_check(r, t, body_ok)
    \/ \E r \in Req, delivered \in BOOLEAN : create_order_put(r, delivered)
    \/ \E r \in Req, t \in TenantIds, body_ok \in BOOLEAN :
            create_product_check(r, t, body_ok)
    \/ \E r \in Req : create_product_put(r)

\* the tenants start anywhere from Slack items below their limits to at
\* their limits
InitLimits ==
    /\ isolation_model \in IsolationModels
    /\ InitTenants(0..Slack)
    /\ items = {}
    /\ req = [r \in Req |-> IdleReq]
    /\ SqlIdle
    /\ PureIdle

SpecLimits == InitLimits /\ [][NextLimits]_vars

(***************************************************************************)
(* SpecSql: the SQL services, for every assignment of tiers to tenants.    *)
(***************************************************************************)
DdbIdle ==
    /\ isolation_model = "pool"
    /\ InitTenants({Slack})
    /\ items = {}
    /\ req = [r \in Req |-> IdleReq]

InitSql ==
    /\ DdbIdle
    /\ tier_of \in [TenantIds -> Tiers]
    /\ db = {}
    /\ sql_resp = NoResponse
    /\ PureIdle

NextSql ==
    \/ \E t \in TenantIds, body_ok, null_ok \in BOOLEAN :
            sql_create_user(t, body_ok, null_ok)
    \/ \E t \in TenantIds, id \in Ids : sql_get_user(t, id)
    \/ \E t \in TenantIds, u \in Ids, body_ok, null_ok \in BOOLEAN :
            sql_create_order(t, u, body_ok, null_ok)
    \/ \E t \in TenantIds, id \in Ids : sql_get_order(t, id)
    \/ \E t \in TenantIds : sql_list_orders(t)
    \/ \E t \in TenantIds, id \in Ids, s \in SqlStatusInputs :
            sql_update_order_status(t, id, s)

SpecSql == InitSql /\ [][NextSql]_vars

(***************************************************************************)
(* SpecPure: one call of the limit decision on arguments drawn from        *)
(* Limits and Counts.                                                      *)
(***************************************************************************)
InitPure ==
    /\ DdbIdle
    /\ SqlIdle
    /\ pure \in {[NoCall EXCEPT !.limit = l, !.current_count = c] :
                    l \in Limits, c \in Counts}

NextPure ==
    \/ call_allow_create
    \/ \E tier \in SubscriptionTiers, key \in LimitKeys :
            call_tier_limit(tier, key)

SpecPure == InitPure /\ [][NextPure]_vars

(***************************************************************************)
(* The order status lifecycle (Spec).                                      *)
(***************************************************************************)
\* the transition table of the order lifecycle
TransitionTable ==
    {<<"pending", "confirmed">>, <<"pending", "cancelled">>,
     <<"confirmed", "shipped">>, <<"confirmed", "cancelled">>,
     <<"shipped", "delivered">>, <<"shipped", "cancelled">>}

TerminalStatuses == {"delivered", "cancelled"}

\* every literal a status can be given as, recognized or not
StatusLiterals == StatusInputs \cup {NoStatus}

orders == {i \in items : i.kind = "orders"}

\* the stored status of the order a request slot addresses
stored_status(r) ==
    (CHOOSE i \in get_item("orders", req[r].tenant_id, req[r].id) : TRUE).status

succeeded_update(r, current, new) ==
    /\ req[r].pc = "done" /\ req[r].op = "update_order"
    /\ req[r].status_code = 200
    /\ req[r].current_status = current /\ req[r].new_status = new

\* C2: of two status-change requests on the same order that both read
\* pending and both attempt pending -> confirmed, exactly one succeeds: never
\* have both been answered with success.
C2_ExactlyOneSucceeds ==
    \A r1, r2 \in Req :
        (/\ r1 # r2
         /\ succeeded_update(r1, "pending", "confirmed")
         /\ req[r2].op = "update_order"
         /\ req[r2].pc \in {"update", "done"}
         /\ req[r2].current_status = "pending"
         /\ req[r2].new_status = "confirmed"
         /\ req[r2].tenant_id = req[r1].tenant_id /\ req[r2].id = req[r1].id)
        => (req[r2].pc = "done" => req[r2].status_code = 409)

\* C3: once the stored status of an order is delivered or cancelled, no step
\* changes it.
C3_TerminalNeverOverwritten ==
    [][\A i \in orders :
          i.status \in TerminalStatuses
          => \E j \in orders' : /\ j.table = i.table /\ j.tenant_id = i.tenant_id
                                /\ j.id = i.id /\ j.status = i.status]_vars

\* C4: update_order run alone on an order whose stored status is current
\* succeeds and leaves the stored status equal to next iff (current, next) is
\* in the transition table; otherwise it answers 400 and the stored status is
\* unchanged (C4_step).  is_valid_status_transition agrees with the table on
\* every pair of literals, recognized or not (C4_table).
C4_table ==
    \A current, new \in StatusLiterals :
        is_valid_status_transition(current, new)
            <=> <<current, new>> \in TransitionTable

\* what a request for current -> new must come to after its read
C4_decided(r, current, new) ==
    IF <<current, new>> \in TransitionTable
    THEN /\ req'[r].pc = "update"
         /\ req'[r].current_status = current
    ELSE /\ req'[r].pc = "done"
         /\ req'[r].status_code = 400
         /\ items' = items

\* the step of slot r is no read of an existing order that comes to anything
\* else, and a write that follows its read undisturbed stores the new status
C4_step ==
    \A r \in Req :
        req'[r] # req[r]
        => /\ (free(r) /\ req'[r].op = "update_order")
              => \A t \in TenantIds, id \in Ids, new \in StatusInputs :
                    LET found == get_item("orders", t, id)
                    IN (/\ found # {}
                        /\ ~C4_decided(r, (CHOOSE i \in found : TRUE).status, new))
                       => ~update_order_get(r, t, id, new)
           /\ (/\ req[r].pc = "update" /\ req'[r].pc = "done"
               /\ stored_status(r) = req[r].current_status)
              => /\ req'[r].status_code = 200
                 /\ <<req[r].current_status, req[r].new_status>>
                        \in TransitionTable
                 /\ \E j \in orders' : /\ j.owner = req[r].tenant_id
                                       /\ j.id = req[r].id
                                       /\ j.status = req[r].new_status
                 /\ \A j \in orders' : (j.id # req[r].id) => j \in orders

Kinds == {"orders", "products"}

limit_of(tenant_id, kind) == tenants[tenant_id].limits[limit_key(kind)]

create_op(kind) == IF kind = "orders" THEN "create_order" ELSE "create_product"

\* the step is the count-and-check step of a creation request of that kind
create_check(r, tenant_id, body_ok, kind) ==
    IF kind = "orders" THEN create_order_check(r, tenant_id, body_ok)
                       ELSE create_product_check(r, tenant_id, body_ok)

\* slot r has passed the check for tenant_id and has not written yet
in_flight(r, tenant_id, kind) ==
    /\ req[r].pc = "put" /\ req[r].op = create_op(kind)
    /\ req[r].tenant_id = tenant_id

created(r, kind) ==
    /\ req[r].pc = "done" /\ req[r].op = create_op(kind)
    /\ req[r].status_code = 201

\* C6: the limit check is check-then-act.  A request that reads a count
\* below the limit passes the check whatever other requests of the tenant are
\* between their check and their write, and a request that has passed writes
\* unconditionally: its write adds one record and is answered 201 whatever
\* the count has become.
C6_step ==
    /\ \A r \in Req, t \in TenantIds, kind \in Kinds :
          (/\ create_check(r, t, TRUE, kind)
           /\ limit_of(t, kind) >= 0
           /\ count_items(kind, t) < limit_of(t, kind))
          => in_flight(r, t, kind)'
    /\ \A r \in Req, t \in TenantIds, kind \in Kinds :
          (in_flight(r, t, kind) /\ req'[r] # req[r])
          => /\ created(r, kind)'
             /\ count_items(kind, t)' = count_items(kind, t) + 1

C6_CheckThenAct == [][C6_step]_vars

\* two requests of one tenant have both written and the stored count is one
\* above the limit
C6_Witness ==
    \E t \in TenantIds, r1, r2 \in Req :
        /\ r1 # r2 /\ created(r1, "orders") /\ created(r2, "orders")
        /\ limit_of(t, "orders") >= 0
        /\ count_items("orders", t) = limit_of(t, "orders") + 1

\* C7: with NReq creation requests in flight the stored count of a limited
\* tenant never exceeds limit + NReq - 1; a request that reads a count that is
\* already >= limit is rejected and writes nothing; and the count does not
\* grow while no request of the tenant is between its check and its write.
C7_Bound ==
    \A t \in TenantIds, kind \in Kinds :
        limit_of(t, kind) >= 0
        => count_items(kind, t) <= limit_of(t, kind) + NReq - 1

C7_step ==
    /\ \A r \in Req, t \in TenantIds, body_ok \in BOOLEAN, kind \in Kinds :
          (/\ create_check(r, t, body_ok, kind)
           /\ limit_of(t, kind) >= 0
           /\ count_items(kind, t) >= limit_of(t, kind))
          => /\ req'[r].pc = "done" /\ req'[r].status_code \in {400, 403}
             /\ items' = items
    /\ \A t \in TenantIds, kind \in Kinds :
          (\A r \in Req : ~in_flight(r, t, kind))
          => count_items(kind, t)' = count_items(kind, t)

C7_OverQuotaBounded == []C7_Bound /\ [][C7_step]_vars

\* a request has been rejected with the stored count above the limit
C7_Witness ==
    \E t \in TenantIds, r \in Req :
        /\ limit_of(t, "products") >= 0
        /\ count_items("products", t) = limit_of(t, "products") + NReq - 1
        /\ req[r].pc = "done" /\ req[r].op = "create_product"
        /\ req[r].status_code = 403
        /\ req[r].current_count = count_items("products", t)

\* C8: allow_create returns true whenever the limit is -1, for every
\* current_count, and every limit of the enterprise tier is -1.
C8_UnlimitedAlwaysAllowed ==
    pure.called
    => /\ pure.limit = -1 => pure.out
       /\ pure.tier = "enterprise" => (pure.limit = -1 /\ pure.out)

\* the decision was taken for an enterprise tenant at the largest count
C8_Witness ==
    /\ pure.called /\ pure.tier = "enterprise" /\ pure.key = "max_users"
    /\ pure.current_count = MaxCount /\ pure.out

\* C9 as stated: for every limit and every current_count >= 0, allow_create
\* returns false iff 0 <= limit <= current_count.
C9_FalseIffNonNegativeLimitReached ==
    pure.called
    => (~pure.out <=> (0 <= pure.limit /\ pure.limit <= pure.current_count))

\* C9 as amended: allow_create returns false iff 0 <= limit <= current_count
\* or limit < -1; only the limit -1 is unlimited.
C9_FalseIffLimitReachedOrBelowMinusOne ==
    pure.called
    => (~pure.out <=> \/ (0 <= pure.limit /\ pure.limit <= pure.current_count)
                      \/ pure.limit < -1)

\* a tenant exactly at its limit has been refused
C9_Witness ==
    /\ pure.called /\ pure.tier = "none"
    /\ pure.limit = 5 /\ pure.current_count = 5 /\ ~pure.out

\* C10: when the limit check denies a creation, create_order and
\* create_product answer 403 with the count that was read, write no record
\* and publish no event: the store is unchanged.
C10_step ==
    \A r \in Req, t \in TenantIds, kind \in Kinds :
        (/\ create_check(r, t, TRUE, kind)
         /\ check_tenant_limits(t, kind, count_items(kind, t)) = "deny")
        => /\ req'[r].pc = "done" /\ req'[r].op = create_op(kind)
           /\ req'[r].status_code = 403
           /\ req'[r].current_count = count_items(kind, t)
           /\ req'[r].published = {}
           /\ items' = items

C10_DeniedCreationWritesNothing == [][C10_step]_vars

\* a creation of each kind has been denied at exactly the limit, with nothing
\* written
C10_Witness ==
    \E r1, r2 \in Req :
        /\ req[r1].pc = "done" /\ req[r1].op = "create_product"
        /\ req[r1].status_code = 403
        /\ req[r1].current_count = limit_of(TenantA, "products")
        /\ req[r2].pc = "done" /\ req[r2].op = "create_order"
        /\ req[r2].status_code = 403
        /\ req[r2].current_count = limit_of(TenantA, "orders")
        /\ items = {}

(***************************************************************************)
(* Tenant isolation and the lifecycle in the SQL services (SpecSql).       *)
(***************************************************************************)
\* C1: no request handled under the context of one tenant returns or
\* modifies a record created under the context of another, whatever the
\* tiers; a get of a foreign record by id is not answered with the record.
C1_TenantIsolation ==
    /\ sql_resp.returned \subseteq {sql_resp.tenant_id}
    /\ sql_resp.modified \subseteq {sql_resp.tenant_id}
    /\ \A r \in Req :
          (req[r].pc = "done" /\ req[r].op = "get_order"
           /\ req[r].status_code = 200)
          => req[r].item_owner = req[r].tenant_id

\* C5: update_order_status accepts exactly the transitions of the table: on
\* an order it addresses, a transition of the table is answered 200 and
\* stored, any other is answered 400 and the stored status stays.
C5_step ==
    \A t \in TenantIds, id \in Ids, new \in SqlStatusInputs \ {""} :
        LET matched == {o \in select_rows("orders", t, tier_of[t]) : o.id = id}
        IN (sql_update_order_status(t, id, new) /\ matched # {})
           => \A o \in matched :
                 IF <<o.status, new>> \in TransitionTable
                 THEN /\ sql_resp'.status_code = 200
                      /\ [o EXCEPT !.status = new] \in db'
                 ELSE /\ sql_resp'.status_code = 400
                      /\ db' = db

C5_SqlTransitionTable == [][C5_step]_vars

(***************************************************************************)
(* The limit check in the SQL services (SpecSql).  preload counts, per     *)
(* tenant and kind, the records the tenant held before the first request,  *)
(* in whichever store the kind is kept.                                    *)
(***************************************************************************)
\* the tenant's current count of a kind in the SQL store
sql_count(tenant_id, relation) ==
    preload[tenant_id][relation]
        + Cardinality({row \in db : row.relation = relation
                                    /\ row.owner = tenant_id})

\* C11: every operation that creates an entity performs the limit check on
\* the tenant's current count before its write and writes only if the check
\* allowed it: each order row a step adds is one the check allows.
C11_step ==
    \A row \in db' \ db :
        row.relation = "orders"
        => check_tenant_limits(row.owner, "orders",
                               sql_count(row.owner, "orders")) = "allow"

C11_WriteOnlyIfAllowed == [][C11_step]_vars

(***************************************************************************)
(* tenant-context.py: resolution of the tenant context of a request        *)
(* (SpecContext).  An event carries up to three credential sources:        *)
(*   claims      requestContext.authorizer.claims                          *)
(*   token       the Authorization header                                  *)
(*   headers     X-Tenant-Id, x-tenant-id and X-Tenant-Tier                *)
(* An absent tenant id is NoTenant (None, or a missing header); an absent  *)
(* tier is "absent".                                                       *)
(***************************************************************************)
AbsentTier == "absent"

TenantIdInputs == TenantIds \cup {NoTenant}
TierInputs == {AbsentTier, "bridge"}

\* the Authorization header: absent, of another scheme, "Bearer " with
\* nothing after it, a bearer token jwt.decode rejects, or one it decodes
TokenKinds == {"absent", "other_scheme", "empty", "undecodable", "decodable"}

NoCredential == [kind |-> "absent", tenant_id |-> NoTenant, tier |-> AbsentTier]

ClaimsInputs ==
    {NoCredential}
    \cup {[kind |-> "present", tenant_id |-> t, tier |-> tier] :
             t \in TenantIdInputs, tier \in TierInputs}

TokenInputs ==
    {[NoCredential EXCEPT !.kind = k] :
        k \in TokenKinds \ {"decodable"}}
    \cup {[kind |-> "decodable", tenant_id |-> t, tier |-> tier] :
             t \in TenantIdInputs, tier \in TierInputs}

HeaderInputs ==
    {[tenant_id |-> t, tenant_id_lower |-> l, tier |-> tier] :
        t \in TenantIdInputs, l \in TenantIdInputs, tier \in TierInputs}

Events ==
    {[claims |-> c, token |-> k, headers |-> h] :
        c \in ClaimsInputs, k \in TokenInputs, h \in HeaderInputs}

\* dict.get(key, default)
get_or(value, default) == IF value = AbsentTier THEN default ELSE value

\* the outcome of a resolution: a context, or the exception raised
NoContext == [raised |-> "none", tenant_id |-> NoTenant, tenant_tier |-> AbsentTier]

TenantContext(tenant_id, tenant_tier) ==
    [NoContext EXCEPT !.tenant_id = tenant_id, !.tenant_tier = tenant_tier]

raise(exception) == [NoContext EXCEPT !.raised = exception]

\* extract_token_from_header: the text after "Bearer ", or None
extract_token_from_header(event) ==
    IF event.token.kind \in {"absent", "other_scheme"}
    THEN NoCredential ELSE event.token

\* extract_from_jwt: jwt.decode raises DecodeError on a token it cannot
\* decode, and the function re-raises it
extract_from_jwt(token) ==
    IF token.kind = "decodable"
    THEN TenantContext(token.tenant_id, get_or(token.tier, "pool"))
    ELSE raise("DecodeError")

\* extract_tenant_context with the X-Tenant-Id headers looked at first
extract_tenant_context_headers_first(event) ==
    LET tenant_id == IF event.headers.tenant_id # NoTenant
                     THEN event.headers.tenant_id
                     ELSE event.headers.tenant_id_lower
        token == extract_token_from_header(event)
    IN IF tenant_id # NoTenant
       THEN TenantContext(tenant_id, get_or(event.headers.tier, "pool"))
       ELSE IF event.claims.kind = "present"
       THEN TenantContext(event.claims.tenant_id,
                          get_or(event.claims.tier, "pool"))
       ELSE IF token.kind \notin {"absent", "empty"}
       THEN extract_from_jwt(token)
       ELSE raise("ValueError")

extract_tenant_context(event) ==
    LET token == extract_token_from_header(event)
        \* headers.get('X-Tenant-Id') or headers.get('x-tenant-id')
        tenant_id == IF event.headers.tenant_id # NoTenant
                     THEN event.headers.tenant_id
                     ELSE event.headers.tenant_id_lower
    IN IF event.claims.kind = "present"
       THEN TenantContext(event.claims.tenant_id,
                          get_or(event.claims.tier, "pool"))
       \* if token: an empty token is falsy
       ELSE IF token.kind \notin {"absent", "empty"}
       THEN extract_from_jwt(token)
       ELSE IF tenant_id # NoTenant
       THEN TenantContext(tenant_id, get_or(event.headers.tier, "pool"))
       ELSE raise("ValueError")

\* with_tenant_context.wrapper: the handler is invoked with the context, a
\* ValueError is answered 401 and any other exception 500
with_tenant_context(event) ==
    LET resolved == extract_tenant_context(event)
    IN CASE resolved.raised = "none" ->
                [invoked |-> TRUE, status_code |-> 0, tenant_context |-> resolved]
         [] resolved.raised = "ValueError" ->
                [invoked |-> FALSE, status_code |-> 401, tenant_context |-> resolved]
         [] OTHER ->
                [invoked |-> FALSE, status_code |-> 500, tenant_context |-> resolved]

NotResolved ==
    [invoked |-> FALSE, status_code |-> 0, tenant_context |-> NoContext]

call_with_tenant_context ==
    /\ ~pure.called
    /\ pure' = [pure EXCEPT !.called = TRUE,
                            !.out = with_tenant_context(pure.event)]
    /\ UNCHANGED <<ddb_vars, sql_vars>>

InitContext ==
    /\ DdbIdle
    /\ SqlIdle
    /\ pure \in {[event |-> e, called |-> FALSE, out |-> NotResolved] :
                    e \in Events}

NextContext == call_with_tenant_context

SpecContext == InitContext /\ [][NextContext]_vars

\* which sources of an event are present on the request
claims_present(event) == event.claims.kind = "present"
token_present(event) == event.token.kind \in {"undecodable", "decodable"}
header_tenant_id(event) ==
    IF event.headers.tenant_id # NoTenant THEN event.headers.tenant_id
    ELSE event.headers.tenant_id_lower

\* C12: resolution follows the precedence claims, bearer token, headers,
\* first match wins: with claims present the context is the claims'; with
\* no claims and a bearer token it is the token's or nothing; only with
\* neither is it the headers', with the tier defaulting to pool.
C12_Precedence ==
    pure.called
    => LET event == pure.event
           ctx == pure.out.tenant_context
       IN /\ claims_present(event)
             => /\ pure.out.invoked
                /\ ctx.tenant_id = event.claims.tenant_id
                /\ ctx.tenant_tier = get_or(event.claims.tier, "pool")
          /\ (~claims_present(event) /\ token_present(event))
             => IF event.token.kind = "decodable"
                THEN /\ pure.out.invoked
                     /\ ctx.tenant_id = event.token.tenant_id
                     /\ ctx.tenant_tier = get_or(event.token.tier, "pool")
                ELSE ~pure.out.invoked
          /\ (~claims_present(event) /\ ~token_present(event)
              /\ pure.out.invoked)
             => /\ ctx.tenant_id = header_tenant_id(event)
                /\ ctx.tenant_tier = get_or(event.headers.tier, "pool")

\* all three sources name a tenant, the claims one tenant and the others
\* another, and the context is the claims'
C12_Witness ==
    /\ pure.called /\ pure.out.invoked
    /\ pure.event.claims.tenant_id = TenantA
    /\ pure.event.token.kind = "decodable"
    /\ pure.event.token.tenant_id = TenantB
    /\ pure.event.headers.tenant_id = TenantB
    /\ pure.out.tenant_context.tenant_id = TenantA

\* C13: if no source yields a tenant id the wrapper answers 401 and does not
\* invoke the handler; no handler runs with a context whose tenant_id is
\* absent.
C13_NoHandlerWithoutTenantId ==
    pure.called
    => /\ pure.out.invoked => pure.out.tenant_context.tenant_id # NoTenant
       /\ (/\ pure.event.claims.tenant_id = NoTenant
           /\ pure.event.token.tenant_id = NoTenant
           /\ header_tenant_id(pure.event) = NoTenant
           /\ pure.event.token.kind # "undecodable")
          => (~pure.out.invoked /\ pure.out.status_code = 401)

\* C14: a request whose bearer token cannot be decoded (and that carries no
\* authorizer claims) is answered 401 and the handler is not invoked.
C14_UndecodableTokenIs401 ==
    (/\ pure.called
     /\ ~claims_present(pure.event)
     /\ pure.event.token.kind = "undecodable")
    => (~pure.out.invoked /\ pure.out.status_code = 401)

(***************************************************************************)
(* Routing (tenant-context.get_database_connection_params) and bridge      *)
(* onboarding (tenant-onboarding.provision_bridge_tenant) on tenant ids    *)
(* that are arbitrary strings over a small alphabet.                       *)
(***************************************************************************)
MaxIdLen == 3

IdAlphabet == {"t", "-", "_", "4", "2"}

Strings(n) == UNION {[1..k -> IdAlphabet] : k \in 1..n}

\* the tenant ids a context can carry: the claim, the token and the headers
\* are strings the caller chooses
TenantIdStrings == Strings(MaxIdLen) \cup {<<"t", "-", "4", "2">>}

\* provision_bridge_tenant: CREATE SCHEMA IF NOT EXISTS
\* tenant_{tenant_id.replace('-', '_')} and its three tables
provision_bridge_tenant(tenant_id) ==
    [schema |-> <<"tenant_">> \o replace_dash(tenant_id),
     tables |-> {"users", "products", "orders"}]

NoTarget == [raised |-> "none", database |-> <<>>, schema |-> <<>>,
             row_security_context |-> NoTenant]

\* SpecRoute: the storage targets of two contexts of the same tier
call_get_database_connection_params ==
    /\ ~pure.called
    /\ pure' = [pure EXCEPT
                  !.called = TRUE,
                  !.out = [i \in 1..2 |->
                            get_database_connection_params(pure.tenant_ids[i],
                                                           pure.tier)]]
    /\ UNCHANGED <<ddb_vars, sql_vars>>

InitRoute ==
    /\ DdbIdle
    /\ SqlIdle
    /\ pure \in {[tenant_ids |-> <<a, b>>, tier |-> tier, called |-> FALSE,
                   out |-> <<NoTarget, NoTarget>>] :
                    a \in TenantIdStrings, b \in TenantIdStrings,
                    tier \in Tiers}

NextRoute == call_get_database_connection_params

SpecRoute == InitRoute /\ [][NextRoute]_vars

\* SpecSchema: a bridge tenant is onboarded, then a request of that tenant
\* is routed
NoSchema == <<>>

call_provision_bridge_tenant ==
    /\ pure.provisioned = NoSchema
    /\ pure' = [pure EXCEPT
                  !.provisioned = provision_bridge_tenant(pure.tenant_id).schema]
    /\ UNCHANGED <<ddb_vars, sql_vars>>

call_route_bridge ==
    /\ pure.provisioned # NoSchema
    /\ pure.routed = NoSchema
    /\ pure' = [pure EXCEPT
                  !.routed = get_database_connection_params(pure.tenant_id,
                                                            "bridge").schema]
    /\ UNCHANGED <<ddb_vars, sql_vars>>

InitSchema ==
    /\ DdbIdle
    /\ SqlIdle
    /\ pure \in {[tenant_id |-> t, provisioned |-> NoSchema,
                   routed |-> NoSchema] : t \in TenantIdStrings}

NextSchema ==
    \/ call_provision_bridge_tenant
    \/ call_route_bridge

SpecSchema == InitSchema /\ [][NextSchema]_vars

\* C15: under one tier the storage target is a function of (tier,
\* tenant_id), and two distinct tenant ids never get the same target: not
\* the same schema under bridge, not the same database under silo, not the
\* same row filter under pool.
C15_DistinctTargets ==
    pure.called
    => LET a == pure.tenant_ids[1]
           b == pure.tenant_ids[2]
       IN /\ a = b => pure.out[1] = pure.out[2]
          /\ a # b
             => /\ pure.out[1] # pure.out[2]
                /\ pure.tier = "bridge"
                   => pure.out[1].schema # pure.out[2].schema
                /\ pure.tier = "silo"
                   => pure.out[1].database # pure.out[2].database

\* C16: the bridge schema is tenant_ followed by the tenant id with every
\* '-' replaced by '_' and every other character kept, and it is the
\* schema onboarding created for the tenant.
C16_BridgeSchemaName ==
    pure.routed # NoSchema
    => /\ Len(pure.routed) = Len(pure.tenant_id) + 1
       /\ pure.routed[1] = "tenant_"
       /\ \A i \in 1..Len(pure.tenant_id) :
            pure.routed[i + 1] = IF pure.tenant_id[i] = "-" THEN "_"
                                 ELSE pure.tenant_id[i]
       /\ pure.routed = pure.provisioned

\* t-42, onboarded as tenant_t_42, is routed to tenant_t_42
C16_Witness ==
    /\ pure.tenant_id = <<"t", "-", "4", "2">>
    /\ pure.provisioned = <<"tenant_", "t", "_", "4", "2">>
    /\ pure.routed = <<"tenant_", "t", "_", "4", "2">>

(***************************************************************************)
(* SpecTier: the SQL services under a tier that is none of pool, bridge,   *)
(* silo.  auth_handler.signup writes the tenant record's subscription tier *)
(* into custom:tenant_tier, which the context then carries.                *)
(***************************************************************************)
\* signup: tenant_tier = tenant_config.get('tier', 'basic')
signup_tenant_tier(tenant_id) == tenants[tenant_id].tier

InitTier ==
    /\ DdbIdle
    /\ tier_of \in {f \in [TenantIds -> Tiers \cup SubscriptionTiers] :
                        /\ f[TenantA] = signup_tenant_tier(TenantA)
                        /\ f[TenantB] \in {"pool", signup_tenant_tier(TenantB)}}
    /\ db = {}
    /\ sql_resp = NoResponse
    /\ PureIdle

SpecTier == InitTier /\ [][NextSql]_vars

\* C17: a request whose tier is none of pool, bridge, silo fails: routing
\* raises, the request is not answered as served (200, 201) or as looked up
\* (404), and it reads and writes no row.
C17_UnknownTierFails ==
    (/\ sql_resp.op # "none"
     /\ tier_of[sql_resp.tenant_id] \notin Tiers)
    => /\ get_database_connection_params(sql_resp.tenant_id,
                                         tier_of[sql_resp.tenant_id]).raised
          = "ValueError"
       /\ sql_resp.status_code \notin {200, 201, 404}
       /\ sql_resp.returned = {}
       /\ sql_resp.modified = {}

(***************************************************************************)
(* The tenant predicate of the order service under the pool tier (SpecSql).*)
(***************************************************************************)
OrderOps == {"list_orders", "get_order", "create_order", "update_order_status"}

\* C18: under the pool tier every statement of the order service against
\* orders and order_items selects and updates only rows whose tenant_id
\* column is the context's tenant id, and every row it inserts has the
\* context's tenant id in that column.
C18_PoolTenantPredicate ==
    /\ (sql_resp.op \in OrderOps /\ tier_of[sql_resp.tenant_id] = "pool")
       => sql_resp.touched \subseteq {sql_resp.tenant_id}
    /\ \A row \in db :
          (/\ row.relation \in {"orders", "order_items"}
           /\ tier_of[row.owner] = "pool")
          => row.tenant_id = row.owner

\* a pool tenant lists its orders from the shared table, which also holds an
\* order of the other pool tenant, and the statement selected only its own
C18_Witness ==
    /\ sql_resp.op = "list_orders"
    /\ sql_resp.tenant_id = TenantA
    /\ tier_of = [t \in TenantIds |-> "pool"]
    /\ sql_resp.touched = {TenantA}
    /\ \E row \in db : row.relation = "orders" /\ row.tenant_id = TenantB

(***************************************************************************)
(* SpecFilter: tenant-context.apply_tenant_filter on queries that are      *)
(* sequences of words.                                                     *)
(***************************************************************************)
MaxQueryLen == 3

\* the words of a query: the keyword in three letter cases, an identifier
\* that contains it in lower case, another word and the terminator
QueryWords == {"SELECT", "WHERE", "where", "Where", "nowhere", ";"}

Queries == UNION {[1..k -> QueryWords] : k \in 1..MaxQueryLen}

\* 'WHERE' in word.upper()
upper_has_where(word) == word \in {"WHERE", "where", "Where", "nowhere"}

\* 'WHERE' in query.upper()
where_in_upper(query) == \E i \in 1..Len(query) : upper_has_where(query[i])

\* f"tenant_id = '{tenant_context.tenant_id}'"
tenant_predicate(tenant_id) ==
    IF tenant_id = TenantA THEN "tenant_id = 't-a'" ELSE "tenant_id = 't-b'"

\* query.replace('WHERE', f"WHERE tenant_id = '...' AND"): every occurrence
\* of the upper-case keyword, and only those
RECURSIVE replace_where(_, _)
replace_where(query, tenant_id) ==
    IF query = <<>> THEN <<>>
    ELSE (IF Head(query) = "WHERE"
          THEN <<"WHERE", tenant_predicate(tenant_id), "AND">>
          ELSE <<Head(query)>>)
         \o replace_where(Tail(query), tenant_id)

\* query.rstrip(';')
RECURSIVE rstrip_semicolon(_)
rstrip_semicolon(query) ==
    IF query # <<>> /\ query[Len(query)] = ";"
    THEN rstrip_semicolon(SubSeq(query, 1, Len(query) - 1))
    ELSE query

\* tenant-context.apply_tenant_filter
apply_tenant_filter(query, tenant_id, tier) ==
    IF tier = "pool"
    THEN IF where_in_upper(query)
         THEN replace_where(query, tenant_id)
         ELSE rstrip_semicolon(query)
                  \o <<"WHERE", tenant_predicate(tenant_id), ";">>
    ELSE query

call_apply_tenant_filter ==
    /\ ~pure.called
    /\ pure' = [pure EXCEPT
                  !.called = TRUE,
                  !.out = apply_tenant_filter(pure.query, pure.tenant_id,
                                              pure.tier)]
    /\ UNCHANGED <<ddb_vars, sql_vars>>

InitFilter ==
    /\ DdbIdle
    /\ SqlIdle
    /\ pure \in {[query |-> q, tenant_id |-> t, tier |-> tier,
                   called |-> FALSE, out |-> <<>>] :
                    q \in Queries, t \in TenantIds, tier \in Tiers}

NextFilter == call_apply_tenant_filter

SpecFilter == InitFilter /\ [][NextFilter]_vars

\* C19: for a pool context the query apply_tenant_filter returns contains
\* the predicate tenant_id = '<tenant id>', whatever the query and the
\* letter case of its where keyword; for bridge and silo contexts the query
\* is returned unchanged.
C19_FilterAlwaysApplied ==
    pure.called
    => IF pure.tier = "pool"
       THEN \E i \in 1..Len(pure.out) :
               pure.out[i] = tenant_predicate(pure.tenant_id)
       ELSE pure.out = pure.query

(***************************************************************************)
(* SpecConn: the connection handle of one request of a SQL service, step   *)
(* by step.  Every handler has the same shape: validate the body, call     *)
(* get_database_connection, open a cursor, and then, inside try/finally,   *)
(* run its statements.  Each call into psycopg2 may raise.                 *)
(***************************************************************************)
ConnOps ==
    {"list_orders", "get_order", "create_order", "update_order_status",
     "create_user"}

\* the handlers that validate a body before connecting
BodyOps == {"create_order", "update_order_status", "create_user"}

\* the handlers that answer 404 when their statement matches no row
LookupOps == {"get_order", "update_order_status"}

\* what cursor.execute can come to
ExecuteOutcomes == {"rows", "no_row", "raises"}

conn_request(op, tier) ==
    [op |-> op, tier |-> tier, pc |-> "start", handle |-> "none",
     cursor |-> "none", status_code |-> 0]

\* lambda_handler: an exception of the handler is answered 500
conn_raise(request) == [request EXCEPT !.pc = "done", !.status_code = 500]

\* the handler's validation of the body, before any connection
conn_validate(body_ok) ==
    /\ pure.pc = "start"
    /\ pure.op \notin BodyOps => body_ok
    /\ pure' = IF body_ok THEN [pure EXCEPT !.pc = "connect"]
               ELSE [pure EXCEPT !.pc = "done", !.status_code = 400]
    /\ UNCHANGED <<ddb_vars, sql_vars>>

\* get_database_connection: psycopg2.connect
conn_connect(ok) ==
    /\ pure.pc = "connect"
    /\ pure' = IF ok
               THEN [pure EXCEPT !.handle = "open",
                                 !.pc = IF pure.tier \in Tiers THEN "scope"
                                        ELSE "cursor"]
               ELSE conn_raise(pure)
    /\ UNCHANGED <<ddb_vars, sql_vars>>

\* get_database_connection: cursor, SET search_path / SET app.current_tenant,
\* cursor.close, return conn; nothing closes conn if one of them raises
conn_scope(ok) ==
    /\ pure.pc = "scope"
    /\ pure' = IF ok THEN [pure EXCEPT !.pc = "cursor"] ELSE conn_raise(pure)
    /\ UNCHANGED <<ddb_vars, sql_vars>>

\* the handler's cursor = connection.cursor(), before its try
conn_cursor(ok) ==
    /\ pure.pc = "cursor"
    /\ pure' = IF ok THEN [pure EXCEPT !.cursor = "open", !.pc = "execute"]
               ELSE conn_raise(pure)
    /\ UNCHANGED <<ddb_vars, sql_vars>>

\* try: cursor.execute(...) and the response
conn_execute(outcome) ==
    /\ pure.pc = "execute"
    /\ outcome = "no_row" => pure.op \in LookupOps
    /\ pure' = [pure EXCEPT
                  !.pc = "finally",
                  !.status_code =
                      CASE outcome = "raises" -> 500
                        [] outcome = "no_row" -> 404
                        [] OTHER -> IF pure.op \in {"create_order", "create_user"}
                                    THEN 201 ELSE 200]
    /\ UNCHANGED <<ddb_vars, sql_vars>>

\* finally: cursor.close(); connection.close()
conn_finally ==
    /\ pure.pc = "finally"
    /\ pure' = [pure EXCEPT !.pc = "done", !.cursor = "closed",
                            !.handle = "closed"]
    /\ UNCHANGED <<ddb_vars, sql_vars>>

InitConn ==
    /\ DdbIdle
    /\ SqlIdle
    /\ pure \in {conn_request(op, tier) :
                    op \in ConnOps, tier \in Tiers \cup {"basic"}}

NextConn ==
    \/ \E body_ok \in BOOLEAN : conn_validate(body_ok)
    \/ \E ok \in BOOLEAN : conn_connect(ok)
    \/ \E ok \in BOOLEAN : conn_scope(ok)
    \/ \E ok \in BOOLEAN : conn_cursor(ok)
    \/ \E outcome \in ExecuteOutcomes : conn_execute(outcome)
    \/ conn_finally

SpecConn == InitConn /\ [][NextConn]_vars

\* C20: a connection handle opened for a request is closed when the request
\* ends, on every exit path: success, business error, a failing scoping
\* statement, a failing cursor, a failing query.
C20_HandleClosedAtEnd ==
    pure.pc = "done" => pure.handle # "open"

(***************************************************************************)
(* The scope of the handle that get_database_connection returns (SpecSql). *)
(***************************************************************************)
\* the store a handle is onto: the database it is connected to and the
\* schema its unqualified table names resolve to
handle_store(conn) == <<conn.database, conn.search_path>>

\* C21: the handle a request gets (a request answered 400 gets none) is
\* scoped to its tenant: under bridge the search path is the tenant's
\* schema, under pool the session tenant marker is the tenant id, under silo
\* the handle is connected to the tenant's own database, and two different
\* silo tenants never get handles onto the same database and schema.
C21_HandleScoped ==
    (sql_resp.op # "none" /\ sql_resp.status_code # 400)
    => LET t == sql_resp.tenant_id
           tier == tier_of[t]
           conn == get_database_connection(t, tier)
           params == get_database_connection_params(t, tier)
       IN /\ tier = "bridge" => conn.search_path = params.schema
          /\ tier = "pool" => conn.current_tenant = t
          /\ tier = "silo"
             => /\ conn.database = params.database
                /\ \A u \in TenantIds \ {t} :
                      tier_of[u] = "silo"
                      => handle_store(get_database_connection(u, "silo"))
                         # handle_store(conn)

(***************************************************************************)
(* The status event of update_order (SpecAlone).                           *)
(***************************************************************************)
\* the event of a status change, as publish_order_event builds it (the
\* timestamp, the clock's reading, is left out)
status_event(tenant_id, order_id, new_status) ==
    [tenant_id |-> tenant_id, order_id |-> order_id,
     event_type |-> order_event_type(new_status)]

\* C22: a status update that passed the transition check writes the new
\* status and answers 200 whether or not the topic takes the event; what it
\* leaves on the topic is the one event of the change, or nothing when the
\* topic fails; a rejected update (400, 404) leaves nothing.
C22_step ==
    \A r \in Req :
        (req[r].pc = "update" /\ req'[r] # req[r])
        => /\ req'[r].status_code = 200
           /\ req'[r].new_status = req[r].new_status
           /\ \A i \in items' :
                 (i.kind = "orders" /\ i.owner = req[r].tenant_id
                  /\ i.id = req[r].id)
                 => i.status = req[r].new_status
           /\ req'[r].published
                 \in {{status_event(req[r].tenant_id, req[r].id,
                                    req[r].new_status)}, {}}

C22_rejected ==
    \A r \in Req :
        (req[r].op = "update_order" /\ req[r].status_code \in {400, 404})
        => req[r].published = {}

C22_EventBestEffort == []C22_rejected /\ [][C22_step]_vars

\* the topic failed: the request is answered 200, nothing is on the topic
\* and the order carries the new status
C22_Witness ==
    \E r \in Req :
        /\ req[r].pc = "done" /\ req[r].op = "update_order"
        /\ req[r].status_code = 200
        /\ req[r].published = {}
        /\ \E i \in items : /\ i.kind = "orders" /\ i.id = req[r].id
                             /\ i.owner = req[r].tenant_id
                             /\ i.status = req[r].new_status
                             /\ i.status # "pending"

(***************************************************************************)
(* SpecTenant: the tenant table and the Cognito user pool under            *)
(* onboarding (tenant-onboarding.lambda_handler), register_tenant,         *)
(* get_tenant, update_tenant and delete_tenant (tenant_handler.py).        *)
(* tenants maps the ids of the stored records to the records; pure holds   *)
(* the user pool, the onboarding in progress and the last response.        *)
(***************************************************************************)
Emails == {"a@x", "b@x"}

\* event['pathParameters'] is null
NullPath == <<"null">>

\* the tenant_id of the path: an id, no such key, or no pathParameters
PathInputs == TenantIds \cup {NoTenant, NullPath}

\* the tier of an onboarding body: a tier, or a literal that is none
OnboardingTiers == {"pool", "gold"}

\* the status of an update body: absent, statuses, and a literal that is none
TenantStatusInputs == {"", "active", "suspended", "archived"}

\* the tier of an update body: absent or a tier
TenantTierInputs == {"", "premium"}

NoJob == [pc |-> "idle", tenant_id |-> NoTenant, tier |-> "", admin_email |-> ""]

NoTenantResponse ==
    [op |-> "none", tenant_context |-> NoTenant, path |-> NoTenant,
     status_code |-> 0, tenant_id |-> NoTenant, read |-> {}]

tenant_response(op, status_code) ==
    [NoTenantResponse EXCEPT !.op = op, !.status_code = status_code]

\* str(uuid.uuid4()): an id no record carries
fresh_tenant_ids == TenantIds \ DOMAIN tenants

fresh_tenant_id == CHOOSE t \in fresh_tenant_ids : TRUE

\* table.put_item(Item=record)
put_tenant(tenant_id, record) ==
    [t \in DOMAIN tenants \cup {tenant_id} |->
        IF t = tenant_id THEN record ELSE tenants[t]]

\* table.update_item(Key, SET ...): the named attributes are set, the others
\* stay, and an item is created if the key has none
update_tenant_item(tenant_id, attributes) ==
    LET old == IF tenant_id \in DOMAIN tenants THEN tenants[tenant_id]
               ELSE [f \in {} |-> ""]
    IN put_tenant(tenant_id,
                  [f \in DOMAIN old \cup DOMAIN attributes |->
                      IF f \in DOMAIN attributes THEN attributes[f]
                      ELSE old[f]])

\* the state of SpecTenant outside the tenant table: the usernames of the
\* user pool, the onboarding in progress, the last response and, as
\* history, the tenants whose provisioning completed without error
NoPool == [users |-> {}, job |-> NoJob, resp |-> NoTenantResponse,
           provisioned |-> {}]

\* lambda_handler / register_tenant: except Exception -> 500
onboarding_failed(op, tenant_id) ==
    [pure EXCEPT !.job = NoJob,
                 !.resp = [tenant_response(op, 500) EXCEPT !.tenant_id = tenant_id]]

\* tenant-onboarding.lambda_handler, up to save_tenant_metadata: the record
\* is stored with status provisioning (fields no handler reads are left out)
onboard_start(admin_email, tier, body_ok) ==
    /\ pure.job = NoJob
    /\ fresh_tenant_ids # {}
    /\ IF ~body_ok
       THEN /\ pure' = [pure EXCEPT !.resp = tenant_response("onboard", 400)]
            /\ tenants' = tenants
       ELSE /\ tenants' = put_tenant(fresh_tenant_id,
                                     [tier |-> tier, status |-> "provisioning"])
            /\ pure' = [pure EXCEPT
                          !.job = [pc |-> "provision",
                                   tenant_id |-> fresh_tenant_id,
                                   tier |-> tier, admin_email |-> admin_email]]
    /\ UNCHANGED <<isolation_model, preload, items, req, sql_vars>>

\* provision_pool_tenant / provision_bridge_tenant / provision_silo_tenant,
\* or ValueError("Invalid tier"); a failing provisioning raises
onboard_provision(ok) ==
    /\ pure.job.pc = "provision"
    /\ pure' = IF pure.job.tier \in Tiers /\ ok
               THEN [pure EXCEPT !.job.pc = "admin"]
               ELSE onboarding_failed("onboard", pure.job.tenant_id)
    /\ UNCHANGED <<isolation_model, tenants, preload, items, req, sql_vars>>

\* create_admin_user: UsernameExistsException is caught and answered with
\* {'exists': True}; any other failure raises
onboard_admin(ok) ==
    /\ pure.job.pc = "admin"
    /\ pure' = IF pure.job.admin_email \in pure.users
               THEN [pure EXCEPT !.job.pc = "activate"]
               ELSE IF ok
               THEN [pure EXCEPT !.job.pc = "activate",
                                 !.users = @ \cup {pure.job.admin_email}]
               ELSE onboarding_failed("onboard", pure.job.tenant_id)
    /\ UNCHANGED <<isolation_model, tenants, preload, items, req, sql_vars>>

\* update_tenant_status(tenant_id, 'active') and the 201 response
onboard_activate ==
    /\ pure.job.pc = "activate"
    /\ tenants' = update_tenant_item(pure.job.tenant_id, [status |-> "active"])
    /\ pure' = [pure EXCEPT
                  !.job = NoJob,
                  !.provisioned = @ \cup {pure.job.tenant_id},
                  !.resp = [tenant_response("onboard", 201)
                              EXCEPT !.tenant_id = pure.job.tenant_id]]
    /\ UNCHANGED <<isolation_model, preload, items, req, sql_vars>>

\* tenant_handler.register_tenant: the record is put with status active,
\* then the user group is created (its failure is printed) and, for the
\* silo model, provision_silo_resources runs and raises on failure
register_tenant(tier, model, body_ok, ok) ==
    /\ fresh_tenant_ids # {}
    /\ IF ~body_ok
       THEN /\ pure' = [pure EXCEPT !.resp = tenant_response("register", 400)]
            /\ tenants' = tenants
       ELSE /\ tenants' = put_tenant(fresh_tenant_id, tenant_record(tier))
            /\ pure' = IF model = "silo" /\ ~ok
                       THEN [pure EXCEPT
                               !.resp = [tenant_response("register", 500)
                                           EXCEPT !.tenant_id = fresh_tenant_id]]
                       ELSE [pure EXCEPT
                               !.provisioned = @ \cup {fresh_tenant_id},
                               !.resp = [tenant_response("register", 201)
                                           EXCEPT !.tenant_id = fresh_tenant_id]]
    /\ UNCHANGED <<isolation_model, preload, items, req, sql_vars>>

\* the tenants a request can come from: auth_handler.signup admits users
\* only to a tenant whose record is active, so a tenant still provisioning
\* has none that signed in
has_users(tenant_id) ==
    /\ tenant_id \in DOMAIN tenants
    /\ tenants[tenant_id].status # "provisioning"

\* the response of a request under tenant_context on the path tenant_id
path_response(op, tenant_context, path, status_code) ==
    [tenant_response(op, status_code)
        EXCEPT !.tenant_context = tenant_context, !.path = path]

\* tenant_handler.get_tenant; path_params.get on a null pathParameters
\* raises and is answered 500
get_tenant(tenant_context, path) ==
    /\ has_users(tenant_context)
    /\ pure' = [pure EXCEPT !.resp =
            IF path = NullPath THEN path_response("get", tenant_context, path, 500)
            ELSE IF path = NoTenant
                 THEN path_response("get", tenant_context, path, 400)
            ELSE IF tenant_context # path
                 THEN path_response("get", tenant_context, path, 403)
            ELSE [path_response("get", tenant_context, path,
                                IF path \in DOMAIN tenants THEN 200 ELSE 404)
                    EXCEPT !.read = {path}]]
    /\ UNCHANGED <<isolation_model, tenants, preload, items, req, sql_vars>>

\* tenant_handler.update_tenant: tier (with its limits) and status are set
\* as the body gives them.  Without a status the call passes
\* ExpressionAttributeNames=None, which the client library may refuse:
\* names_ok chooses
update_tenant(tenant_context, path, tier, status, names_ok) ==
    /\ has_users(tenant_context)
    /\ status # "" => names_ok
    /\ LET tier_attributes ==
               IF tier = "" THEN [f \in {} |-> ""]
               ELSE [tier |-> tier, limits |-> get_tier_limits(tier)]
           attributes ==
               IF status = "" THEN tier_attributes
               ELSE [f \in DOMAIN tier_attributes \cup {"status"} |->
                        IF f = "status" THEN status ELSE tier_attributes[f]]
       IN IF path = NullPath \/ (path = tenant_context /\ status = "" /\ ~names_ok)
          THEN /\ pure' = [pure EXCEPT !.resp =
                              path_response("update", tenant_context, path, 500)]
               /\ tenants' = tenants
          ELSE IF tenant_context # path
          THEN /\ pure' = [pure EXCEPT !.resp =
                              path_response("update", tenant_context, path, 403)]
               /\ tenants' = tenants
          ELSE /\ tenants' = update_tenant_item(path, attributes)
               /\ pure' = [pure EXCEPT !.resp =
                              path_response("update", tenant_context, path, 200)]
    /\ UNCHANGED <<isolation_model, preload, items, req, sql_vars>>

\* tenant_handler.delete_tenant: the soft delete
delete_tenant(tenant_context, path) ==
    /\ has_users(tenant_context)
    /\ IF path = NullPath
       THEN /\ pure' = [pure EXCEPT !.resp =
                           path_response("delete", tenant_context, path, 500)]
            /\ tenants' = tenants
       ELSE IF tenant_context # path
       THEN /\ pure' = [pure EXCEPT !.resp =
                           path_response("delete", tenant_context, path, 403)]
            /\ tenants' = tenants
       ELSE /\ tenants' = update_tenant_item(path, [status |-> "deleted"])
            /\ pure' = [pure EXCEPT !.resp =
                           path_response("delete", tenant_context, path, 200)]
    /\ UNCHANGED <<isolation_model, preload, items, req, sql_vars>>

InitTenant ==
    /\ isolation_model = "pool"
    /\ tenants = [t \in {} |-> tenant_record("basic")]
    /\ preload = [t \in TenantIds |-> [orders |-> 0, products |-> 0]]
    /\ items = {}
    /\ req = [r \in Req |-> IdleReq]
    /\ SqlIdle
    /\ pure = NoPool

NextTenant ==
    \/ \E e \in Emails, tier \in OnboardingTiers, body_ok \in BOOLEAN :
            onboard_start(e, tier, body_ok)
    \/ \E ok \in BOOLEAN : onboard_provision(ok)
    \/ \E ok \in BOOLEAN : onboard_admin(ok)
    \/ onboard_activate
    \/ \E model \in IsolationModels, body_ok, ok \in BOOLEAN :
            register_tenant("basic", model, body_ok, ok)
    \/ \E c \in TenantIds, path \in PathInputs : get_tenant(c, path)
    \/ \E c \in TenantIds, path \in PathInputs, tier \in TenantTierInputs,
          status \in TenantStatusInputs, names_ok \in BOOLEAN :
            update_tenant(c, path, tier, status, names_ok)
    \/ \E c \in TenantIds, path \in PathInputs : delete_tenant(c, path)

SpecTenant == InitTenant /\ [][NextTenant]_vars

(***************************************************************************)
(* The tenant lifecycle (SpecTenant).                                      *)
(***************************************************************************)
TenantStatuses == {"provisioning", "active", "suspended", "deleted"}

\* provisioning -> active, active <-> suspended, any -> deleted
TenantTransitions ==
    {<<"provisioning", "active">>, <<"active", "suspended">>,
     <<"suspended", "active">>}
    \cup {<<status, "deleted">> : status \in TenantStatuses}

\* C23: every change of a stored tenant status is provisioning -> active,
\* active -> suspended, suspended -> active or any -> deleted, so a deleted
\* tenant never becomes active or suspended again, and every stored status
\* is one of provisioning, active, suspended, deleted.
C23_step ==
    \A t \in DOMAIN tenants \cap DOMAIN tenants' :
        tenants'[t].status # tenants[t].status
        => <<tenants[t].status, tenants'[t].status>> \in TenantTransitions

C23_statuses ==
    \A t \in DOMAIN tenants : tenants[t].status \in TenantStatuses

C23_TenantLifecycle == []C23_statuses /\ [][C23_step]_vars

(***************************************************************************)
(* Onboarding with an admin email already in the user pool (SpecTenant).   *)
(***************************************************************************)
\* C24: an onboarding whose admin email is already a username of the user
\* pool, from an earlier onboarding, is answered 409, not 201: the step
\* that creates the admin user ends such an onboarding with 409.
C24_step ==
    (/\ pure.job.pc = "admin"
     /\ pure.job.admin_email \in pure.users
     /\ pure'.job # pure.job)
    => /\ pure'.job = NoJob
       /\ pure'.resp.op = "onboard"
       /\ pure'.resp.status_code = 409

C24_DuplicateEmailIs409 == [][C24_step]_vars

(***************************************************************************)
(* Requests on another tenant's record (SpecTenant).                       *)
(***************************************************************************)
\* C25: get_tenant, update_tenant and delete_tenant under the context of a
\* tenant, with a path tenant_id that is another tenant's or absent, answer
\* 403 (get with no id: 400), read no record and leave the table as it was.
C25_step ==
    (/\ pure'.resp # pure.resp
     /\ pure'.resp.op \in {"get", "update", "delete"}
     /\ pure'.resp.path # pure'.resp.tenant_context)
    => /\ pure'.resp.status_code =
            IF pure'.resp.op = "get" /\ pure'.resp.path \notin TenantIds
            THEN 400 ELSE 403
       /\ pure'.resp.read = {}
       /\ tenants' = tenants

C25_ForeignPathRejected == [][C25_step]_vars

(***************************************************************************)
(* Active only after provisioning (SpecTenant).                            *)
(***************************************************************************)
\* C29: a tenant record is active only if the provisioning of the tenant's
\* resources (in onboarding, also the creation of its admin user) completed
\* without error; a registration or onboarding answered 500 leaves no
\* active record for its tenant id.
C29_ActiveOnlyIfProvisioned ==
    /\ \A t \in DOMAIN tenants :
          tenants[t].status = "active" => t \in pure.provisioned
    /\ (pure.resp.op \in {"register", "onboard"} /\ pure.resp.status_code = 500)
       => \/ pure.resp.tenant_id \notin DOMAIN tenants
          \/ tenants[pure.resp.tenant_id].status # "active"

(***************************************************************************)
(* SpecForgot: auth_handler.forgot_password, run twice on the same request *)
(* against two user pools that differ only in whether the request's email  *)
(* is registered.                                                          *)
(***************************************************************************)
ForgotEmails == Emails \cup {"c@x"}

\* body.get('email'): an address, or none
EmailInputs == ForgotEmails \cup {""}

NoAuthResponse == [status_code |-> 0, message |-> ""]

\* auth_handler.forgot_password; fails is a failure of the Cognito call
\* other than UserNotFoundException
forgot_password_response(email, users, fails) ==
    IF email = ""
    THEN [status_code |-> 400, message |-> "email is required"]
    ELSE IF fails
    THEN [status_code |-> 500, message |-> "Failed to initiate password reset"]
    ELSE IF email \notin users
    THEN [status_code |-> 200,
          message |-> "If the email exists, a reset code has been sent"]
    ELSE [status_code |-> 200, message |-> "Password reset code sent to email"]

\* the user pool of a run: the second differs from the first in the
\* membership of the request's email and in nothing else
run_users(run) ==
    IF run = 1 THEN pure.users
    ELSE IF pure.email \in pure.users THEN pure.users \ {pure.email}
    ELSE pure.users \cup (ForgotEmails \cap {pure.email})

forgot_password(run) ==
    /\ pure.out[run] = NoAuthResponse
    /\ pure' = [pure EXCEPT !.out[run] =
                    forgot_password_response(pure.email, run_users(run),
                                             pure.fails)]
    /\ UNCHANGED <<ddb_vars, sql_vars>>

InitForgot ==
    /\ DdbIdle
    /\ SqlIdle
    /\ pure \in {[email |-> e, users |-> u, fails |-> f,
                   out |-> <<NoAuthResponse, NoAuthResponse>>] :
                    e \in EmailInputs, u \in SUBSET ForgotEmails,
                    f \in BOOLEAN}

NextForgot == \E run \in 1..2 : forgot_password(run)

SpecForgot == InitForgot /\ [][NextForgot]_vars

\* C26: forgot_password does not reveal whether the email is registered:
\* the two runs, which differ only in that, answer with the same status
\* code and the same body.
C26_NoEnumeration ==
    (pure.out[1] # NoAuthResponse /\ pure.out[2] # NoAuthResponse)
    => pure.out[1] = pure.out[2]

(***************************************************************************)
(* The users joined to orders under the pool tier (SpecSql).               *)
(***************************************************************************)
\* C27: with every tenant in the pool tier, the orders and the joined user
\* rows (email, name) that get_order and list_orders return were all
\* created under the requesting tenant, after any sequence of requests.
C27_JoinedUserOfTenant ==
    (/\ sql_resp.op \in {"get_order", "list_orders"}
     /\ \A t \in TenantIds : tier_of[t] = "pool")
    => sql_resp.returned \subseteq {sql_resp.tenant_id}

(***************************************************************************)
(* SpecProduct: product_handler.update_product and delete_product on the   *)
(* products of both tenants.  Each handler reads the item with get_item    *)
(* and then writes in a second table call; other requests run in between.  *)
(***************************************************************************)
\* the id of the path: 0 is a path without id
NoId == 0

ProductIdInputs == Ids \cup {NoId}

\* the position of a request between its get_item and its write
product_pending(pc, op, tenant_id, product_id) ==
    [IdleReq EXCEPT !.pc = pc, !.op = op, !.tenant_id = tenant_id,
                    !.id = product_id]

product_response(op, status_code, tenant_id, product_id) ==
    [create_response(op, status_code)
        EXCEPT !.tenant_id = tenant_id, !.id = product_id]

\* update_product up to the update expression: 400 without id, 404 when
\* get_item finds nothing, 400 when the body names no updatable field
update_product_get(r, tenant_id, product_id, body_ok) ==
    /\ free(r)
    /\ req' = [req EXCEPT ![r] =
            IF product_id = NoId
            THEN product_response("update_product", 400, tenant_id, product_id)
            ELSE IF get_item("products", tenant_id, product_id) = {}
            THEN product_response("update_product", 404, tenant_id, product_id)
            ELSE IF ~body_ok
            THEN product_response("update_product", 400, tenant_id, product_id)
            ELSE product_pending("update", "update_product", tenant_id,
                                 product_id)]
    /\ UNCHANGED <<isolation_model, tenants, preload, items>>
    /\ UNCHANGED <<sql_vars, pure>>

\* table.update_item(Key=key, SET ...) without a condition: the attributes
\* of the item are set, and an item is created if the key has none
update_product_item(tenant_id, product_id) ==
    IF get_item("products", tenant_id, product_id) # {} THEN items
    ELSE put_item(new_item("products", tenant_id, product_id))

update_product_update(r) ==
    /\ req[r].pc = "update"
    /\ req[r].op = "update_product"
    /\ items' = update_product_item(req[r].tenant_id, req[r].id)
    /\ req' = [req EXCEPT ![r] =
            product_response("update_product", 200, req[r].tenant_id, req[r].id)]
    /\ UNCHANGED <<isolation_model, tenants, preload>>
    /\ UNCHANGED <<sql_vars, pure>>

\* delete_product up to its delete_item
delete_product_get(r, tenant_id, product_id) ==
    /\ free(r)
    /\ req' = [req EXCEPT ![r] =
            IF product_id = NoId
            THEN product_response("delete_product", 400, tenant_id, product_id)
            ELSE IF get_item("products", tenant_id, product_id) = {}
            THEN product_response("delete_product", 404, tenant_id, product_id)
            ELSE product_pending("delete", "delete_product", tenant_id,
                                 product_id)]
    /\ UNCHANGED <<isolation_model, tenants, preload, items>>
    /\ UNCHANGED <<sql_vars, pure>>

\* table.delete_item(Key=key)
delete_product_delete(r) ==
    /\ req[r].pc = "delete"
    /\ req[r].op = "delete_product"
    /\ items' = items \ get_item("products", req[r].tenant_id, req[r].id)
    /\ req' = [req EXCEPT ![r] =
            product_response("delete_product", 200, req[r].tenant_id, req[r].id)]
    /\ UNCHANGED <<isolation_model, tenants, preload>>
    /\ UNCHANGED <<sql_vars, pure>>

\* every tenant holds the products of all ids; none is created afterwards
InitProduct ==
    /\ isolation_model \in IsolationModels
    /\ InitTenants({Slack})
    /\ items = {new_item("products", t, id) : t \in TenantIds, id \in Ids}
    /\ req = [r \in Req |-> IdleReq]
    /\ SqlIdle
    /\ PureIdle

NextProduct ==
    \/ \E r \in Req, t \in TenantIds, id \in ProductIdInputs, body_ok \in BOOLEAN :
            update_product_get(r, t, id, body_ok)
    \/ \E r \in Req : update_product_update(r)
    \/ \E r \in Req, t \in TenantIds, id \in ProductIdInputs :
            delete_product_get(r, t, id)
    \/ \E r \in Req : delete_product_delete(r)

SpecProduct == InitProduct /\ [][NextProduct]_vars

\* C28: update_product never brings a product into existence: under any
\* interleaving of update_product and delete_product, once a product has
\* been deleted no item with its id is in the table again (no step adds an
\* item; the ids are never reused).
C28_step == items' \subseteq items

C28_UpdateNeverCreates == [][C28_step]_vars

(***************************************************************************)
(* SpecTxn: order_service.create_order statement by statement.  psycopg2   *)
(* runs the statements of a connection in one transaction: the rows they   *)
(* insert are pending until connection.commit() and are dropped by         *)
(* connection.rollback().  db holds the committed rows, pure the request   *)
(* and its pending rows.                                                   *)
(***************************************************************************)
MaxItems == 2

\* the number of items of the body; 0 is an empty list
ItemCounts == 0..MaxItems

NoTxn ==
    [pc |-> "idle", tenant_id |-> NoTenant, order_id |-> 0, items |-> 0,
     pending |-> {}, status_code |-> 0]

\* INSERT INTO orders (...): the row, with the number of items its request
\* carries as history
order_row(tenant_id, order_id, count) ==
    [relation |-> "orders",
     tenant_id |-> IF tier_of[tenant_id] = "pool" THEN tenant_id ELSE NoTenant,
     order_id |-> order_id, item |-> 0, items |-> count]

\* INSERT INTO order_items (...): the row of the item-th item
order_item_row(tenant_id, order_id, item, count) ==
    [relation |-> "order_items",
     tenant_id |-> IF tier_of[tenant_id] = "pool" THEN tenant_id ELSE NoTenant,
     order_id |-> order_id, item |-> item, items |-> count]

\* uuid4: an order id no committed row carries
txn_fresh_ids == {n \in Ids : \A row \in db : row.order_id # n}

\* create_order up to the connection: 400 when user_id or items is missing
\* or items is empty
txn_begin(tenant_id, count, body_ok) ==
    /\ pure.pc \in {"idle", "done"}
    /\ txn_fresh_ids # {}
    /\ pure' = IF ~body_ok \/ count = 0
               THEN [NoTxn EXCEPT !.pc = "done", !.tenant_id = tenant_id,
                                  !.status_code = 400]
               ELSE [NoTxn EXCEPT !.pc = "order", !.tenant_id = tenant_id,
                                  !.items = count,
                                  !.order_id = CHOOSE n \in txn_fresh_ids :
                                      \A m \in txn_fresh_ids : n <= m]
    /\ UNCHANGED <<ddb_vars, sql_vars>>

\* cursor.execute(order_query, order_params); a failure goes to except
txn_insert_order(ok) ==
    /\ pure.pc = "order"
    /\ pure' = IF ok
               THEN [pure EXCEPT
                       !.pc = "items",
                       !.pending = {order_row(pure.tenant_id, pure.order_id,
                                              pure.items)}]
               ELSE [pure EXCEPT !.pc = "except"]
    /\ UNCHANGED <<ddb_vars, sql_vars>>

\* for item in items: cursor.execute(item_query, item_params) with
\* autocommit on: each row is stored as soon as it is inserted
txn_insert_item_autocommit(ok) ==
    /\ pure.pc = "items"
    /\ Cardinality(pure.pending) <= pure.items
    /\ IF ok
       THEN /\ pure' = [pure EXCEPT !.pending = @ \cup
                          {order_item_row(pure.tenant_id, pure.order_id,
                                          Cardinality(pure.pending), pure.items)}]
            /\ db' = db \cup pure'.pending
       ELSE /\ pure' = [pure EXCEPT !.pc = "except"]
            /\ db' = db
    /\ UNCHANGED <<ddb_vars, tier_of, sql_resp>>

\* for item in items: cursor.execute(item_query, item_params)
txn_insert_item(ok) ==
    /\ pure.pc = "items"
    /\ Cardinality(pure.pending) <= pure.items
    /\ IF ok
       THEN /\ pure' = [pure EXCEPT !.pending = @ \cup
                          {order_item_row(pure.tenant_id, pure.order_id,
                                          Cardinality(pure.pending), pure.items)}]
            /\ db' = db
       ELSE /\ pure' = [pure EXCEPT !.pc = "except"]
            /\ db' = db
    /\ UNCHANGED <<ddb_vars, tier_of, sql_resp>>

\* connection.commit() after the last item, then the 201 response and the
\* finally block; a failing commit goes to except
txn_commit(ok) ==
    /\ pure.pc = "items"
    /\ Cardinality(pure.pending) = pure.items + 1
    /\ IF ok
       THEN /\ db' = db \cup pure.pending
            /\ pure' = [pure EXCEPT !.pc = "done", !.pending = {},
                                    !.status_code = 201]
       ELSE /\ db' = db
            /\ pure' = [pure EXCEPT !.pc = "except"]
    /\ UNCHANGED <<ddb_vars, tier_of, sql_resp>>

\* except: connection.rollback(); raise; finally: close; lambda_handler
\* answers 500
txn_rollback ==
    /\ pure.pc = "except"
    /\ pure' = [pure EXCEPT !.pc = "done", !.pending = {}, !.status_code = 500]
    /\ UNCHANGED <<ddb_vars, sql_vars>>

InitTxn ==
    /\ DdbIdle
    /\ tier_of \in [TenantIds -> {"pool", "bridge"}]
    /\ db = {}
    /\ sql_resp = NoResponse
    /\ pure = NoTxn

NextTxn ==
    \/ \E t \in TenantIds, count \in ItemCounts, body_ok \in BOOLEAN :
            txn_begin(t, count, body_ok)
    \/ \E ok \in BOOLEAN : txn_insert_order(ok)
    \/ \E ok \in BOOLEAN : txn_insert_item(ok)
    \/ \E ok \in BOOLEAN : txn_commit(ok)
    \/ txn_rollback

SpecTxn == InitTxn /\ [][NextTxn]_vars

\* the item numbers stored for an order id
stored_items(order_id) ==
    {row.item : row \in {i \in db : i.relation = "order_items"
                                    /\ i.order_id = order_id}}

\* C30: create_order is atomic: an order row is stored together with all
\* the item rows of its request and no item row is stored without its
\* order; a request answered 500 leaves no order row and no item row.
C30_CreateOrderAtomic ==
    /\ \A row \in db :
          IF row.relation = "orders"
          THEN stored_items(row.order_id) = 1..row.items
          ELSE \E o \in db : o.relation = "orders" /\ o.order_id = row.order_id
    /\ (pure.pc = "done" /\ pure.status_code = 500)
       => \A row \in db : row.order_id # pure.order_id

\* an order of two items is stored whole, and a later request that failed
\* after its first item has left nothing
C30_Witness ==
    /\ pure.pc = "done" /\ pure.status_code = 500 /\ pure.items = 2
    /\ \E row \in db : /\ row.relation = "orders" /\ row.items = 2
                        /\ stored_items(row.order_id) = {1, 2}

====
